---- MODULE Spec2Model ----
(***************************************************************************)
(* State-machine model of the submarine game client: PlayerController      *)
(* (stamina / boost / teleport, cannons, tilt) with its Entity, the core   *)
(* Camera, the InputHandler with the start screen of the Game scene, and   *)
(* the Sun and the shadow of a SpriteStack.                                *)
(*                                                                         *)
(* Numbers are fixed point.  Stamina is counted in half points (the regen  *)
(* rate is 0.5), tilt in fifths (tiltSpeed is 0.2); lengths, speeds and    *)
(* the camera's rotation are counted in 1/Unit, entity rotation in whole   *)
(* degrees.  Updates run with the default delta of 16.67 ms, i.e.          *)
(* deltaFactor = 1 (one 60 fps frame).                                     *)
(* Bubble particles (write-only render effects with random parameters)     *)
(* are not part of the state.                                              *)
(***************************************************************************)
EXTENDS Integers, Sequences, FiniteSets, TLC

VARIABLES player, entity, camera, handler, game, shortest, sun, stack, obs

vars == <<player, entity, camera, handler, game, shortest, sun, stack, obs>>

(***************************************************************************)
(* Bounds of the exploration.                                              *)
(***************************************************************************)
\* longest key hold explored, in frames (must exceed maxTeleportHold)
MaxHold == 47
\* teleports explored per behaviour (bounds the entity's distance from origin)
MaxTeleports == 2
\* fractional steps (camera smoothing, friction) explored per behaviour
MaxSteps == 2
\* cannonballs held in the controller's list at once
MaxBalls == 2
\* manual camera moves explored per behaviour
MaxMoves == 2
\* largest current angle tried on the angle difference, in degrees
MaxAngle == 90

\* Resolution of lengths and camera angles: every explored smoothing step
\* (a division by 10) and friction step (a multiplication by 49/50) is exact.
Unit == 10 * (50 ^ MaxSteps)

(***************************************************************************)
(* JavaScript arithmetic.                                                  *)
(***************************************************************************)
Min(a, b) == IF a <= b THEN a ELSE b
Max(a, b) == IF a >= b THEN a ELSE b
Abs(a) == IF a >= 0 THEN a ELSE -a

\* JavaScript's %: the result takes the sign of the dividend.
JsRem(a, b) == IF a >= 0 THEN a % b ELSE -((-a) % b)

\* Math.cos / Math.sin of Phaser.Math.DegToRad(deg), exact on quarter turns
\* (the only angles at which the model evaluates them).
Cos(deg) ==
  CASE deg % 360 = 0 -> 1
    [] deg % 360 = 90 -> 0
    [] deg % 360 = 180 -> -1
    [] deg % 360 = 270 -> 0

Sin(deg) ==
  CASE deg % 360 = 0 -> 0
    [] deg % 360 = 90 -> 1
    [] deg % 360 = 180 -> 0
    [] deg % 360 = 270 -> -1

(***************************************************************************)
(* PlayerController constants (constructor).                               *)
(***************************************************************************)
deltaFactor == 1
maxBoostCooldown == 60
\* stamina quantities in half points
maxStamina == 2 * 100
staminaRegenRate == 1
boostStaminaCost == 2 * 1
teleportStaminaCost == 2 * 30
teleportDistance == 100 * Unit
maxTeleportHold == 45
fireRate == 15
\* tilt quantities in fifths
maxTilt == 5
tiltSpeed == 1
\* Cannonball lifetime in frames
cannonballLifetime == 100
\* Entity movement constants
maxSpeed == 5 * Unit
acceleration == Unit \div 5
rotationSpeed == 2
directionOffset == 180

\* new InputState()
NoInput ==
  [forward |-> FALSE, backward |-> FALSE, turnLeft |-> FALSE, turnRight |-> FALSE,
   boostTeleport |-> FALSE, escape |-> FALSE, performanceToggle |-> FALSE,
   leftMouse |-> FALSE, rightMouse |-> FALSE, middleMouse |-> FALSE,
   anyKeyPressed |-> FALSE, quitRequested |-> FALSE]

(***************************************************************************)
(* State after construction.                                               *)
(***************************************************************************)
PlayerInit ==
  [boostActive |-> FALSE, previousBoostActive |-> FALSE, boostCooldown |-> 0,
   stamina |-> maxStamina, staminaLocked |-> FALSE,
   spacePressTime |-> 0,
   firingLeft |-> FALSE, firingRight |-> FALSE,
   fireCooldownLeft |-> 0, fireCooldownRight |-> 0,
   cannonballs |-> <<>>,
   tiltAmount |-> 0,
   camera |-> FALSE]

EntityInit == [x |-> 0, y |-> 0, rotation |-> 0, speed |-> 0]

CameraInit ==
  [width |-> 0, height |-> 0, scrollX |-> 0, scrollY |-> 0,
   x |-> 0, y |-> 0, rotation |-> 0, hasManualAdjustment |-> FALSE,
   targetX |-> 0, targetY |-> 0, targetRotation |-> 0]

\* obs records what the last update was given and did; it is not program state.
\* new InputHandler(scene): isDown holds the keys of keyMap that are down,
\* buttons the pointer buttons that are down.
HandlerInit ==
  [currentState |-> NoInput, previousState |-> NoInput, isMobile |-> FALSE,
   isDown |-> {}, buttons |-> {}]

\* The Game scene after create().
GameInit == [gameStarted |-> FALSE, paused |-> FALSE, scene |-> "GameScene"]

AngleInit == [current |-> 0, target |-> 0, diff |-> 0, applied |-> FALSE]

\* new Sun(): the default angles, in whole degrees.  The direction vector
\* is a function of the two angles and is not kept.
SunInit == [horizontalAngle |-> 45, verticalAngle |-> 45, returned |-> <<>>]

\* new SpriteStack(scene): the default stack of 8 layers of 32 x 32 pixels at
\* globalScale 2 (createDefaultLayers), the default sun angles in whole
\* degrees, and no shadow container yet.  layerSprites is the number of layer
\* sprites; baseShadowLength is the value last computed by drawShadow.
StackInit ==
  [numLayers |-> 8, height |-> 32 * 2, layerSprites |-> 8,
   sunHorizontalAngle |-> 45, sunVerticalAngle |-> 45, shadowEnabled |-> TRUE,
   shadowContainer |-> <<>>, baseShadowLength |-> 0]

\* call and args name the last operation; moved tells a Camera.move is not yet
\* followed by a reset; steps counts the fractional steps taken, moves the
\* manual camera moves; pressed tells a keydown or pointerdown event came
\* since the last Game.update; buttons names the mouse buttons explored.
ObsInit ==
  [call |-> "constructor", args |-> <<>>, input |-> NoInput, held |-> 0,
   gapLeft |-> fireRate, gapRight |-> fireRate, moved |-> FALSE, steps |-> 0,
   moves |-> 0, pressed |-> FALSE, buttons |-> "both"]

(***************************************************************************)
(* Camera coordinate transforms (core/Camera.js).                          *)
(***************************************************************************)
\* The rotation matrix of worldToScreen / screenToWorld applied to an offset.
\* A zero offset stays zero whatever the cosine and sine are; any other
\* offset is rotated with the exact quarter-turn values (rot is in 1/Unit).
RotateOffset(ox, oy, rot) ==
  IF ox = 0 /\ oy = 0
  THEN [x |-> 0, y |-> 0]
  ELSE [x |-> ox * Cos(rot \div Unit) - oy * Sin(rot \div Unit),
        y |-> ox * Sin(rot \div Unit) + oy * Cos(rot \div Unit)]

worldToScreen(c, worldX, worldY) ==
  LET offsetX == worldX - c.x
      offsetY == worldY - c.y
      r == IF c.rotation # 0
           THEN RotateOffset(offsetX, offsetY, c.rotation)
           ELSE [x |-> offsetX, y |-> offsetY]
  IN  [x |-> (c.width * Unit) \div 2 + r.x, y |-> (c.height * Unit) \div 2 + r.y]

\* screenToWorld rotating the same way as worldToScreen.
screenToWorldSameTurn(c, screenX, screenY) ==
  LET offsetX == screenX - (c.width * Unit) \div 2
      offsetY == screenY - (c.height * Unit) \div 2
      r == IF c.rotation # 0
           THEN RotateOffset(offsetX, offsetY, c.rotation)
           ELSE [x |-> offsetX, y |-> offsetY]
  IN  [x |-> c.x + r.x, y |-> c.y + r.y]

screenToWorld(c, screenX, screenY) ==
  LET offsetX == screenX - (c.width * Unit) \div 2
      offsetY == screenY - (c.height * Unit) \div 2
      r == IF c.rotation # 0
           THEN RotateOffset(offsetX, offsetY, -c.rotation)
           ELSE [x |-> offsetX, y |-> offsetY]
  IN  [x |-> c.x + r.x, y |-> c.y + r.y]

\* _getShortestAngleDifference, on angles in 1/Unit degrees.
getShortestAngleDifferenceOneSided(current, target) ==
  LET diff == JsRem(target - current, 360 * Unit)
  IN  IF diff > 180 * Unit THEN diff - 360 * Unit ELSE diff

\* _getShortestAngleDifference, on angles in 1/Unit degrees.
getShortestAngleDifference(current, target) ==
  LET diff == JsRem(target - current, 360 * Unit)
      d1 == IF diff > 180 * Unit THEN diff - 360 * Unit ELSE diff
  IN  IF d1 < -(180 * Unit) THEN d1 + 360 * Unit ELSE d1

\* An optional argument is <<>> for null and <<v>> for the value v.
\* follow(targetX, targetY, targetRotation): targets in 1/Unit, the rotation
\* in whole degrees or null.  Smoothing is 0.1: a tenth of the way per call.
follow(c, targetX, targetY, targetRotation) ==
  LET c1 == [c EXCEPT !.targetX = targetX, !.targetY = targetY,
                      !.targetRotation =
                         IF targetRotation # <<>> THEN targetRotation[1] ELSE @]
      x == c1.x + (c1.targetX - c1.x) \div 10
      y == c1.y + (c1.targetY - c1.y) \div 10
      c2 == [c1 EXCEPT !.x = x, !.y = y,
                       !.scrollX = x - (c.width * Unit) \div 2,
                       !.scrollY = y - (c.height * Unit) \div 2]
      targetAngle == JsRem(-targetRotation[1], 360) * Unit
      turned == c2.rotation
                  + getShortestAngleDifference(c2.rotation, targetAngle) \div 10
  IN  IF c1.hasManualAdjustment THEN c1
      ELSE IF targetRotation # <<>>
           THEN [c2 EXCEPT !.rotation = JsRem(turned, 360 * Unit)]
           ELSE c2

\* setRotation(angle), angle in whole degrees.
setRotation(c, angle) == [c EXCEPT !.rotation = JsRem(angle, 360) * Unit]

\* move without the manual-adjustment mark.
moveUnmarked(c, dx, dy) ==
  [c EXCEPT !.x = @ + dx, !.y = @ + dy,
            !.scrollX = c.x + dx - (c.width * Unit) \div 2,
            !.scrollY = c.y + dy - (c.height * Unit) \div 2]

\* move(dx, dy): manual camera movement.
move(c, dx, dy) ==
  [c EXCEPT !.x = @ + dx, !.y = @ + dy,
            !.scrollX = c.x + dx - (c.width * Unit) \div 2,
            !.scrollY = c.y + dy - (c.height * Unit) \div 2,
            !.hasManualAdjustment = TRUE]

resetToDefaultPosition(c) == [c EXCEPT !.hasManualAdjustment = FALSE]

\* reset(x, y, rotation): each argument optional; positions in 1/Unit, the
\* rotation in whole degrees.
reset(c, x, y, rotation) ==
  LET nx == IF x # <<>> THEN x[1] ELSE c.x
      ny == IF y # <<>> THEN y[1] ELSE c.y
  IN  [c EXCEPT !.x = nx, !.y = ny,
                !.rotation = IF rotation # <<>>
                             THEN JsRem(rotation[1], 360) * Unit ELSE @,
                !.scrollX = nx - (c.width * Unit) \div 2,
                !.scrollY = ny - (c.height * Unit) \div 2,
                !.hasManualAdjustment = FALSE]

(***************************************************************************)
(* Entity (core/Entity.js).                                                *)
(***************************************************************************)
\* applyPhysics at 60 fps, for an entity with a PlayerController: friction
\* 0.98 is 49/50, the heading is rotation + directionOffset.
applyPhysics(e) ==
  LET speed == (e.speed * 49) \div 50
      effectiveRotation == JsRem(e.rotation + directionOffset, 360)
  IN  [e EXCEPT !.speed = speed,
                !.x = @ + (-Sin(effectiveRotation)) * speed * deltaFactor,
                !.y = @ + Cos(effectiveRotation) * speed * deltaFactor]

\* setSpeed(speed): clamped to -maxSpeed..maxSpeed.
setSpeed(e, speed) == [e EXCEPT !.speed = Max(-maxSpeed, Min(maxSpeed, speed))]

\* rotate(amount): whole degrees, kept in 0..359.
rotate(e, amount) ==
  LET r == JsRem(e.rotation + amount, 360)
  IN  [e EXCEPT !.rotation = IF r < 0 THEN r + 360 ELSE r]

(***************************************************************************)
(* PlayerController (controllers/PlayerController.js).                     *)
(***************************************************************************)
\* getCenterPosition: p.camera tells whether setCamera has given a camera.
getCenterPosition(p, e, c) ==
  IF ~p.camera
  THEN [x |-> e.x, y |-> e.y]
  ELSE screenToWorld(c, (c.width * Unit) \div 2, (c.height * Unit) \div 2)

\* teleportPolar: move the entity in polar coordinates relative to its rotation.
teleportPolar(e, angle, distance) ==
  LET worldAngle == e.rotation + angle
  IN  [e EXCEPT !.x = e.x + distance * Cos(worldAngle),
                !.y = e.y + distance * Sin(worldAngle)]

\* update, key held: count the hold and boost while stamina allows.
BoostOnHold(p) ==
  LET q == [p EXCEPT !.spacePressTime = @ + deltaFactor]
  IN  IF ~q.staminaLocked /\ q.stamina > 0 /\ q.boostCooldown <= 0
      THEN LET s == q.stamina - boostStaminaCost * deltaFactor
           IN  IF s <= 0
               THEN [q EXCEPT !.stamina = s, !.boostActive = FALSE,
                              !.boostCooldown = maxBoostCooldown,
                              !.staminaLocked = TRUE]
               ELSE [q EXCEPT !.stamina = s, !.boostActive = TRUE]
      ELSE [q EXCEPT !.boostActive = FALSE]

\* TeleportOnRelease without the upper limit on the hold.
TeleportOnReleaseAnyHold(p) ==
  /\ p.spacePressTime > 0
  /\ ~p.staminaLocked
  /\ p.boostCooldown = 0

\* update, key released: the condition under which the release teleports.
TeleportOnRelease(p) ==
  /\ p.spacePressTime > 0
  /\ p.spacePressTime <= maxTeleportHold
  /\ ~p.staminaLocked
  /\ p.boostCooldown = 0

\* update, key released: teleport direction from the movement keys.
TeleportAngle(in) ==
  IF in.backward THEN 90
  ELSE IF in.turnLeft THEN 180
  ELSE IF in.turnRight THEN 0
  ELSE 270

\* update, teleport executed: pay for it, or deplete and lock.
ConsumeTeleportStamina(p) ==
  IF p.stamina >= teleportStaminaCost
  THEN [p EXCEPT !.stamina = @ - teleportStaminaCost]
  ELSE [p EXCEPT !.stamina = 0, !.staminaLocked = TRUE]

\* update, key released: reset teleport/boost state.
ResetOnRelease(p) == [p EXCEPT !.spacePressTime = 0, !.boostActive = FALSE]

\* update: forward / backward keys.
Accelerate(e, in) ==
  IF in.forward THEN [e EXCEPT !.speed = @ + acceleration * deltaFactor]
  ELSE IF in.backward THEN [e EXCEPT !.speed = @ - acceleration * deltaFactor]
  ELSE e

\* update: rotation of the entity by the turn keys.
Turn(e, in) ==
  IF in.turnLeft
  THEN LET r == JsRem(e.rotation - rotationSpeed * deltaFactor, 360)
       IN  [e EXCEPT !.rotation = IF r < 0 THEN r + 360 ELSE r]
  ELSE IF in.turnRight
  THEN [e EXCEPT !.rotation = JsRem(e.rotation + rotationSpeed * deltaFactor, 360)]
  ELSE e

\* update: tilt effect of the turn keys.
Tilt(p, in) ==
  IF in.turnLeft
  THEN [p EXCEPT !.tiltAmount = Min(maxTilt, @ + tiltSpeed * deltaFactor)]
  ELSE IF in.turnRight
  THEN [p EXCEPT !.tiltAmount = Max(-maxTilt, @ - tiltSpeed * deltaFactor)]
  ELSE IF p.tiltAmount > 0
  THEN [p EXCEPT !.tiltAmount = Max(0, @ - tiltSpeed * deltaFactor)]
  ELSE IF p.tiltAmount < 0
  THEN [p EXCEPT !.tiltAmount = Min(0, @ + tiltSpeed * deltaFactor)]
  ELSE p

\* RegenerateStamina unlocking as soon as a teleport is affordable again.
RegenerateStaminaEarlyUnlock(p) ==
  IF ~p.boostActive /\ p.stamina < maxStamina
  THEN LET s == Min(maxStamina, p.stamina + staminaRegenRate * deltaFactor)
       IN  [p EXCEPT !.stamina = s,
                     !.staminaLocked = IF s >= teleportStaminaCost THEN FALSE ELSE @]
  ELSE p

\* update: regenerate stamina when not boosting, unlock when full.
RegenerateStamina(p) ==
  IF ~p.boostActive /\ p.stamina < maxStamina
  THEN LET s == Min(maxStamina, p.stamina + staminaRegenRate * deltaFactor)
       IN  [p EXCEPT !.stamina = s,
                     !.staminaLocked = IF s >= maxStamina THEN FALSE ELSE @]
  ELSE p

\* update: decrease boost cooldown.
DecreaseBoostCooldown(p) ==
  IF p.boostCooldown > 0 THEN [p EXCEPT !.boostCooldown = @ - deltaFactor] ELSE p

\* update: boost effect and speed cap (speed * 1.8 is (9 * speed) / 5,
\* -normalMaxSpeed * 0.6 is -(3 * normalMaxSpeed) / 5).
CapSpeed(e, p) ==
  LET boosted == IF p.boostActive
                 THEN Min((9 * e.speed) \div 5, maxSpeed * 2)
                 ELSE e.speed
      normalMaxSpeed == IF p.boostActive THEN (3 * maxSpeed) \div 2 ELSE maxSpeed
  IN  [e EXCEPT !.speed = Max(Min(boosted, normalMaxSpeed),
                              -((3 * normalMaxSpeed) \div 5))]

\* fireCannon: a new Cannonball at the centre position, heading sideways.
fireCannon(p, e, c, sideAngle) ==
  LET at == getCenterPosition(p, e, c)
      ball == [x |-> at.x, y |-> at.y, rotation |-> e.rotation + sideAngle + 90,
               lifetime |-> cannonballLifetime, active |-> TRUE]
  IN  [p EXCEPT !.cannonballs = Append(@, ball)]

\* update: left mouse button fires the left cannon.
FireLeft(p, e, c, in) ==
  IF in.leftMouse /\ p.fireCooldownLeft <= 0
  THEN fireCannon([p EXCEPT !.firingLeft = TRUE, !.fireCooldownLeft = fireRate],
                  e, c, 90)
  ELSE [p EXCEPT !.firingLeft = FALSE]

\* update: right mouse button fires the right cannon.
FireRight(p, e, c, in) ==
  IF in.rightMouse /\ p.fireCooldownRight <= 0
  THEN fireCannon([p EXCEPT !.firingRight = TRUE, !.fireCooldownRight = fireRate],
                  e, c, -90)
  ELSE [p EXCEPT !.firingRight = FALSE]

\* DecreaseFireCooldowns not counting the update in which the cannon fired.
DecreaseFireCooldownsAfterShot(p) ==
  [p EXCEPT !.fireCooldownLeft = IF @ > 0 /\ ~p.firingLeft THEN @ - deltaFactor ELSE @,
            !.fireCooldownRight = IF @ > 0 /\ ~p.firingRight THEN @ - deltaFactor ELSE @]

\* update: decrease the fire cooldowns.
DecreaseFireCooldowns(p) ==
  [p EXCEPT !.fireCooldownLeft = IF @ > 0 THEN @ - deltaFactor ELSE @,
            !.fireCooldownRight = IF @ > 0 THEN @ - deltaFactor ELSE @]

\* Cannonball.update with a physics body (the engine moves the sprite):
\* count the lifetime down and destroy the ball when it runs out.
CannonballUpdate(b) ==
  IF ~b.active THEN b
  ELSE LET l == b.lifetime - deltaFactor
       IN  [b EXCEPT !.lifetime = l, !.active = (l > 0)]

RECURSIVE KeepUpdated(_)
\* The loop of updateCannonballs over the list, first to last.
KeepUpdated(balls) ==
  IF balls = <<>> THEN <<>>
  ELSE IF Head(balls).active
       THEN <<CannonballUpdate(Head(balls))>> \o KeepUpdated(Tail(balls))
       ELSE KeepUpdated(Tail(balls))

updateCannonballs(p) == [p EXCEPT !.cannonballs = KeepUpdated(@)]

\* update, lines 78-129: the boost / teleport part of the controller state.
HandleBoostTeleport(p, in) ==
  IF in.boostTeleport
  THEN BoostOnHold(p)
  ELSE IF TeleportOnRelease(p)
       THEN ResetOnRelease(ConsumeTeleportStamina(p))
       ELSE ResetOnRelease(p)

\* update, lines 96-111: the entity after the teleport, if there is one.
HandleTeleportMove(p, e, in) ==
  IF ~in.boostTeleport /\ TeleportOnRelease(p)
  THEN teleportPolar(e, TeleportAngle(in), teleportDistance)
  ELSE e

\* The controller after update(inputState), called with the entity e.
UpdatedPlayer(p, e, c, in) ==
  LET p1 == HandleBoostTeleport(p, in)
      e1 == Turn(Accelerate(HandleTeleportMove(p, e, in), in), in)
      p2 == DecreaseBoostCooldown(RegenerateStamina(Tilt(p1, in)))
      e2 == CapSpeed(e1, p2)
      p3 == FireRight(FireLeft(p2, e2, c, in), e2, c, in)
      p4 == updateCannonballs(DecreaseFireCooldowns(p3))
  IN  [p4 EXCEPT !.previousBoostActive = p4.boostActive]

\* The entity after update(inputState).
UpdatedEntity(p, e, in) ==
  LET p1 == HandleBoostTeleport(p, in)
      e1 == Turn(Accelerate(HandleTeleportMove(p, e, in), in), in)
      p2 == DecreaseBoostCooldown(RegenerateStamina(Tilt(p1, in)))
  IN  CapSpeed(e1, p2)

\* What the update did, for the properties: the input it was given, for how
\* many consecutive updates the boost/teleport key has been held, and how many
\* updates ago each side last fired (fireRate stands for "fireRate or more,
\* or never").
Observe(o, p, in) ==
  [o EXCEPT !.call = "update", !.input = in,
            !.held = IF in.boostTeleport THEN @ + 1 ELSE 0,
            !.gapLeft = IF p.firingLeft THEN 0 ELSE Min(@ + 1, fireRate),
            !.gapRight = IF p.firingRight THEN 0 ELSE Min(@ + 1, fireRate)]

\* The exploration stays within the bounds.
WithinBounds(p, e) ==
  /\ p.spacePressTime <= MaxHold
  /\ Abs(e.x) <= MaxTeleports * teleportDistance
  /\ Abs(e.y) <= MaxTeleports * teleportDistance
  /\ Len(p.cannonballs) <= MaxBalls

\* PlayerController.update(inputState) at 60 fps.
Update(in) ==
  /\ player' = UpdatedPlayer(player, entity, camera, in)
  /\ entity' = UpdatedEntity(player, entity, in)
  /\ WithinBounds(player', entity')
  /\ obs' = Observe(obs, player', in)
  /\ UNCHANGED <<camera, handler, game, shortest, sun, stack>>

\* State after construction, in an 800 x 600 desktop window.
Init ==
  /\ player = PlayerInit
  /\ entity = EntityInit
  /\ camera = [CameraInit EXCEPT !.width = 800, !.height = 600]
  /\ handler = HandlerInit
  /\ game = GameInit
  /\ shortest = AngleInit
  /\ sun = SunInit
  /\ stack = StackInit
  /\ obs = ObsInit

\* Only the boost/teleport key is used.
StaminaInputs == {[NoInput EXCEPT !.boostTeleport = b] : b \in BOOLEAN}
\* Only the mouse buttons are used, and in one behaviour only the left one,
\* only the right one, or both together.
CannonInputs(buttons) ==
  {NoInput,
   [NoInput EXCEPT !.leftMouse = (buttons \in {"left", "both"}),
                   !.rightMouse = (buttons \in {"right", "both"})]}
\* Only the movement keys are used: one key at a time, or both turn keys.
SteeringInputs ==
  {in \in {[NoInput EXCEPT !.forward = f, !.backward = b,
                           !.turnLeft = l, !.turnRight = r] : f, b, l, r \in BOOLEAN} :
     (in.forward \/ in.backward) => ~(in.turnLeft \/ in.turnRight \/
                                       (in.forward /\ in.backward))}

NextStamina == \E in \in StaminaInputs : Update(in)
NextCannons == \E in \in CannonInputs(obs.buttons) : Update(in)
NextSteering == \E in \in SteeringInputs : Update(in)

SpecStamina == Init /\ [][NextStamina]_vars
InitCannons ==
  /\ player = PlayerInit
  /\ entity = EntityInit
  /\ camera = [CameraInit EXCEPT !.width = 800, !.height = 600]
  /\ handler = HandlerInit
  /\ game = GameInit
  /\ shortest = AngleInit
  /\ sun = SunInit
  /\ stack = StackInit
  /\ obs \in {[ObsInit EXCEPT !.buttons = b] : b \in {"left", "right", "both"}}

SpecCannons == InitCannons /\ [][NextCannons]_vars
SpecSteering == Init /\ [][NextSteering]_vars

(***************************************************************************)
(* Camera operations as actions.                                           *)
(***************************************************************************)
\* The world explored: positions within MaxTeleports teleports of the origin.
WorldRadius == MaxTeleports * teleportDistance

InWorld(x, y) == Abs(x) <= WorldRadius /\ Abs(y) <= WorldRadius

\* The smoothing step of follow is exact at the model's resolution.
ExactFollow(c, tx, ty, tr) ==
  \/ c.hasManualAdjustment
  \/ /\ (tx - c.x) % 10 = 0
     /\ (ty - c.y) % 10 = 0
     /\ tr # <<>> =>
          getShortestAngleDifference(c.rotation, JsRem(-tr[1], 360) * Unit) % 10 = 0

CameraTargets == {<<0, 0>>, <<teleportDistance, -teleportDistance>>}
CameraTurns == {<<>>, <<90>>}
CameraPans == {<<-(30 * Unit), 40 * Unit>>}

\* camera.follow(targetX, targetY, targetRotation)
Follow(tx, ty, tr) ==
  /\ ExactFollow(camera, tx, ty, tr)
  /\ camera.hasManualAdjustment \/ obs.steps < MaxSteps
  /\ camera' = follow(camera, tx, ty, tr)
  /\ obs' = [obs EXCEPT !.call = "follow", !.args = <<tx, ty, tr>>,
                        !.steps = IF camera.hasManualAdjustment THEN @ ELSE @ + 1]
  /\ UNCHANGED <<player, entity, handler, game, shortest, sun, stack>>

\* camera.move(dx, dy)
Move(dx, dy) ==
  /\ InWorld(camera.x + dx, camera.y + dy)
  /\ obs.moves < MaxMoves
  /\ camera' = move(camera, dx, dy)
  /\ obs' = [obs EXCEPT !.call = "move", !.args = <<dx, dy>>, !.moved = TRUE,
                        !.moves = @ + 1]
  /\ UNCHANGED <<player, entity, handler, game, shortest, sun, stack>>

\* camera.resetToDefaultPosition()
ResetToDefaultPosition ==
  /\ camera' = resetToDefaultPosition(camera)
  /\ obs' = [obs EXCEPT !.call = "resetToDefaultPosition", !.args = <<>>,
                        !.moved = FALSE]
  /\ UNCHANGED <<player, entity, handler, game, shortest, sun, stack>>

\* camera.reset(x, y, rotation)
Reset(x, y, rotation) ==
  /\ camera' = reset(camera, x, y, rotation)
  /\ obs' = [obs EXCEPT !.call = "reset", !.args = <<x, y, rotation>>,
                        !.moved = FALSE]
  /\ UNCHANGED <<player, entity, handler, game, shortest, sun, stack>>

\* camera.setRotation(angle)
SetRotation(angle) ==
  /\ camera' = setRotation(camera, angle)
  /\ obs' = [obs EXCEPT !.call = "setRotation", !.args = <<angle>>]
  /\ UNCHANGED <<player, entity, handler, game, shortest, sun, stack>>

NextCamera ==
  \/ \E t \in CameraTargets, tr \in CameraTurns : Follow(t[1], t[2], tr)
  \/ \E d \in CameraPans : Move(d[1], d[2])
  \/ ResetToDefaultPosition
  \/ \E r \in {<<<<>>, <<>>, <<>>>>, <<<<0>>, <<0>>, <<180>>>>} :
        Reset(r[1], r[2], r[3])
  \/ \E a \in {-90, 450} : SetRotation(a)

\* The window sizes explored (camera.width, camera.height).
WindowSizes == {<<800, 600>>, <<1023, 767>>}

InitCamera ==
  /\ player = PlayerInit
  /\ entity = EntityInit
  /\ camera \in {[CameraInit EXCEPT !.width = sz[1], !.height = sz[2]] :
                    sz \in WindowSizes}
  /\ handler = HandlerInit
  /\ game = GameInit
  /\ shortest = AngleInit
  /\ sun = SunInit
  /\ stack = StackInit
  /\ obs = ObsInit

SpecCamera == InitCamera /\ [][NextCamera]_vars

(***************************************************************************)
(* Entity movement with a camera following it.                             *)
(***************************************************************************)
\* controller.setCamera(camera)
SetCamera ==
  /\ player' = [player EXCEPT !.camera = TRUE]
  /\ obs' = [obs EXCEPT !.call = "setCamera", !.args = <<>>]
  /\ UNCHANGED <<entity, camera, handler, game, shortest, sun, stack>>

\* controller.teleportPolar(angle, teleportDistance)
TeleportPolar(angle) ==
  /\ InWorld(teleportPolar(entity, angle, teleportDistance).x,
             teleportPolar(entity, angle, teleportDistance).y)
  /\ entity' = teleportPolar(entity, angle, teleportDistance)
  /\ obs' = [obs EXCEPT !.call = "teleportPolar", !.args = <<angle>>]
  /\ UNCHANGED <<player, camera, handler, game, shortest, sun, stack>>

\* entity.applyPhysics(16.67)
ApplyPhysics ==
  /\ obs.steps < MaxSteps
  /\ (entity.speed * 49) % 50 = 0
  /\ InWorld(applyPhysics(entity).x, applyPhysics(entity).y)
  /\ entity' = applyPhysics(entity)
  /\ obs' = [obs EXCEPT !.call = "applyPhysics", !.args = <<>>, !.steps = @ + 1]
  /\ UNCHANGED <<player, camera, handler, game, shortest, sun, stack>>

\* entity.setSpeed(speed)
SetSpeed(speed) ==
  /\ entity' = setSpeed(entity, speed)
  /\ obs' = [obs EXCEPT !.call = "setSpeed", !.args = <<speed>>]
  /\ UNCHANGED <<player, camera, handler, game, shortest, sun, stack>>

\* entity.rotate(amount)
Rotate(amount) ==
  /\ entity' = rotate(entity, amount)
  /\ obs' = [obs EXCEPT !.call = "rotate", !.args = <<amount>>]
  /\ UNCHANGED <<player, camera, handler, game, shortest, sun, stack>>

NextCenter ==
  \/ SetCamera
  \/ \E a \in {270, 90} : TeleportPolar(a)
  \/ ApplyPhysics
  \/ \E v \in {2 * maxSpeed, -(maxSpeed \div 2)} : SetSpeed(v)
  \/ \E a \in {180} : Rotate(a)
  \/ Follow(entity.x, entity.y, <<entity.rotation>>)

SpecCenter == Init /\ [][NextCenter]_vars

(***************************************************************************)
(* _getShortestAngleDifference on its own.                                 *)
(***************************************************************************)
\* The angles tried, in whole degrees: current within MaxAngle of zero, the
\* target up to four times as far, so that target - current passes +-360.
AngleInputs ==
  {[AngleInit EXCEPT !.current = c * Unit, !.target = t * Unit] :
     c \in -MaxAngle..MaxAngle, t \in -(4 * MaxAngle)..(4 * MaxAngle)}

InitAngle ==
  /\ player = PlayerInit
  /\ entity = EntityInit
  /\ camera = [CameraInit EXCEPT !.width = 800, !.height = 600]
  /\ handler = HandlerInit
  /\ game = GameInit
  /\ shortest \in AngleInputs
  /\ sun = SunInit
  /\ stack = StackInit
  /\ obs = ObsInit

\* camera._getShortestAngleDifference(current, target)
ShortestAngleDifference ==
  /\ ~shortest.applied
  /\ shortest' = [shortest EXCEPT
                 !.diff = getShortestAngleDifference(shortest.current, shortest.target),
                 !.applied = TRUE]
  /\ obs' = [obs EXCEPT !.call = "_getShortestAngleDifference", !.args = <<>>]
  /\ UNCHANGED <<player, entity, camera, handler, game, sun, stack>>

NextAngle == ShortestAngleDifference

SpecAngle == InitAngle /\ [][NextAngle]_vars

(***************************************************************************)
(* InputHandler (game/Input.js) and the Game scene (scenes/Game.js).       *)
(***************************************************************************)
\* The keyboard keys and pointer buttons whose events are explored.
Keys == {"z", "esc", "p"}
Buttons == {"left"}

\* InputHandler.update()
inputUpdate(h) ==
  LET c == h.currentState
      d == h.isDown
  IN  [h EXCEPT
         !.previousState = c,
         !.currentState =
            [c EXCEPT !.anyKeyPressed = FALSE,
                      !.performanceToggle = FALSE,
                      !.quitRequested = FALSE,
                      !.forward = IF h.isMobile THEN "w" \in d
                                  ELSE ("z" \in d \/ "w" \in d),
                      !.backward = "s" \in d,
                      !.turnLeft = IF h.isMobile THEN "a" \in d
                                   ELSE ("q" \in d \/ "a" \in d),
                      !.turnRight = "d" \in d,
                      !.boostTeleport = "space" \in d,
                      !.escape = "esc" \in d]]

\* Game.togglePause()
togglePause(g) == [g EXCEPT !.paused = ~@]

\* Game.startGame()
startGame(g) == [g EXCEPT !.gameStarted = TRUE]

\* Game.update(), after inputHandler.update() has produced handler h.
gameUpdate(g, h) ==
  IF h.currentState.quitRequested
  THEN [g EXCEPT !.scene = "GameOverScene"]
  ELSE IF ~g.gameStarted /\ h.currentState.anyKeyPressed
       THEN startGame(g)
       ELSE g

\* A keydown event: the 'keydown' listener of the handler, and the
\* 'keydown-P' / 'keydown-ESC' listeners of the scene.
KeyDown(k) ==
  /\ game.scene = "GameScene"
  /\ handler' = [handler EXCEPT !.isDown = @ \cup {k},
                                !.currentState.anyKeyPressed = TRUE]
  /\ game' = IF k \in {"p", "esc"} THEN togglePause(game) ELSE game
  /\ obs' = [obs EXCEPT !.call = "keydown", !.args = <<k>>, !.pressed = TRUE]
  /\ UNCHANGED <<player, entity, camera, shortest, sun, stack>>

\* A keyup event: the 'keyup-ESC' and 'keyup-P' listeners of the handler.
KeyUp(k) ==
  /\ game.scene = "GameScene"
  /\ k \in handler.isDown
  /\ handler' = [handler EXCEPT
                   !.isDown = @ \ {k},
                   !.currentState.quitRequested = IF k = "esc" THEN TRUE ELSE @,
                   !.currentState.performanceToggle = IF k = "p" THEN TRUE ELSE @]
  /\ obs' = [obs EXCEPT !.call = "keyup", !.args = <<k>>]
  /\ UNCHANGED <<player, entity, camera, game, shortest, sun, stack>>

\* A pointerdown event with button b going down.
PointerDown(b) ==
  /\ game.scene = "GameScene"
  /\ b \notin handler.buttons
  /\ LET down == handler.buttons \cup {b}
     IN  handler' = [handler EXCEPT
                       !.buttons = down,
                       !.currentState.leftMouse = IF "left" \in down THEN TRUE ELSE @,
                       !.currentState.rightMouse = IF "right" \in down THEN TRUE ELSE @,
                       !.currentState.middleMouse = IF "middle" \in down THEN TRUE ELSE @,
                       !.currentState.anyKeyPressed = TRUE]
  /\ obs' = [obs EXCEPT !.call = "pointerdown", !.args = <<b>>, !.pressed = TRUE]
  /\ UNCHANGED <<player, entity, camera, game, shortest, sun, stack>>

\* A pointerup event with button b released.
PointerUp(b) ==
  /\ game.scene = "GameScene"
  /\ b \in handler.buttons
  /\ handler' = [handler EXCEPT
                   !.buttons = @ \ {b},
                   !.currentState.leftMouse = IF b = "left" THEN FALSE ELSE @,
                   !.currentState.rightMouse = IF b = "right" THEN FALSE ELSE @,
                   !.currentState.middleMouse = IF b = "middle" THEN FALSE ELSE @]
  /\ obs' = [obs EXCEPT !.call = "pointerup", !.args = <<b>>]
  /\ UNCHANGED <<player, entity, camera, game, shortest, sun, stack>>

\* One frame of the scene: Game.update().
GameUpdate ==
  /\ game.scene = "GameScene"
  /\ handler' = inputUpdate(handler)
  /\ game' = gameUpdate(game, handler')
  /\ obs' = [obs EXCEPT !.call = "Game.update", !.args = <<>>, !.pressed = FALSE]
  /\ UNCHANGED <<player, entity, camera, shortest, sun, stack>>

NextGame ==
  \/ \E k \in Keys : KeyDown(k)
  \/ \E k \in Keys : KeyUp(k)
  \/ \E b \in Buttons : PointerDown(b)
  \/ \E b \in Buttons : PointerUp(b)
  \/ GameUpdate

\* The handler is constructed on a desktop or on a mobile browser.
InitGame ==
  /\ player = PlayerInit
  /\ entity = EntityInit
  /\ camera = [CameraInit EXCEPT !.width = 800, !.height = 600]
  /\ handler \in {[HandlerInit EXCEPT !.isMobile = m] : m \in BOOLEAN}
  /\ game = GameInit
  /\ shortest = AngleInit
  /\ sun = SunInit
  /\ stack = StackInit
  /\ obs = ObsInit

SpecGame == InitGame /\ [][NextGame]_vars

(***************************************************************************)
(* Sun (core/SpriteStack.js).                                              *)
(***************************************************************************)
\* sun.adjustHorizontalAngle(delta): the remainder keeps the sign of the sum.
adjustHorizontalAngle(s, delta) ==
  LET a == JsRem(s.horizontalAngle + delta, 360)
  IN  [s EXCEPT !.horizontalAngle = a, !.returned = <<a>>]

\* sun.adjustVerticalAngle(delta): clamped to 0..90.
adjustVerticalAngle(s, delta) ==
  LET a == Max(0, Min(90, s.verticalAngle + delta))
  IN  [s EXCEPT !.verticalAngle = a, !.returned = <<a>>]

\* The angles a sun is constructed with: the defaults and the Game scene's
\* new Sun(135, 45), and the deltas tried, in degrees.
SunStarts == {<<45, 45>>, <<135, 45>>}
HorizontalDeltas == {-90, -1, 1, 400}
VerticalDeltas == {-30, 30}

AdjustHorizontalAngle(delta) ==
  /\ sun' = adjustHorizontalAngle(sun, delta)
  /\ obs' = [obs EXCEPT !.call = "adjustHorizontalAngle", !.args = <<delta>>]
  /\ UNCHANGED <<player, entity, camera, handler, game, shortest, stack>>

AdjustVerticalAngle(delta) ==
  /\ sun' = adjustVerticalAngle(sun, delta)
  /\ obs' = [obs EXCEPT !.call = "adjustVerticalAngle", !.args = <<delta>>]
  /\ UNCHANGED <<player, entity, camera, handler, game, shortest, stack>>

NextSun ==
  \/ \E d \in HorizontalDeltas : AdjustHorizontalAngle(d)
  \/ \E d \in VerticalDeltas : AdjustVerticalAngle(d)

InitSun ==
  /\ player = PlayerInit
  /\ entity = EntityInit
  /\ camera = [CameraInit EXCEPT !.width = 800, !.height = 600]
  /\ handler = HandlerInit
  /\ game = GameInit
  /\ shortest = AngleInit
  /\ sun \in {[SunInit EXCEPT !.horizontalAngle = a[1], !.verticalAngle = a[2]] :
               a \in SunStarts}
  /\ stack = StackInit
  /\ obs = ObsInit

SpecSun == InitSun /\ [][NextSun]_vars

(***************************************************************************)
(* SpriteStack shadow (core/SpriteStack.js).                               *)
(***************************************************************************)
\* most layers of an explored stack (must exceed the 8 layers used whole)
MaxLayers == 12

\* Shadow lengths are counted in 1/LengthUnit: height * (1 - v/90) * 2.5 is
\* height * (90 - v) / 36 for a whole height and a whole angle v in degrees.
LengthUnit == (90 * 2) \div 5

\* Layer offsets of a stack of n layers are counted in 1/OffsetUnit(n): the
\* layer factor divides by max(1, n - 1) and the factor 0.6 by 5.
OffsetUnit(n) == LengthUnit * 5 * Max(1, n - 1)

globalScale == 2

\* createDefaultLayers of a stack constructed with numLayers layers of
\* defaultHeight pixels.
createDefaultLayers(numLayers, defaultHeight) ==
  [StackInit EXCEPT !.numLayers = numLayers, !.layerSprites = numLayers,
                    !.height = defaultHeight * globalScale]

\* stack.configureSun(horizontalAngle, verticalAngle, shadowEnabled)
configureSun(st, horizontalAngle, verticalAngle, shadowEnabled) ==
  [st EXCEPT !.sunHorizontalAngle = horizontalAngle,
             !.sunVerticalAngle = verticalAngle,
             !.shadowEnabled = shadowEnabled]

\* A length that grows with the sun's height instead of shrinking.
baseShadowLengthRising(height, verticalAngle) == height * verticalAngle

\* drawShadow, lines 289-296: height * (1 - verticalFactor) * 2.5.
baseShadowLength(height, verticalAngle) == height * (90 - verticalAngle)

\* drawShadow, line 304: 0.86 * (1 - verticalFactor * 0.3), in 1/30000.
shadowAlpha(verticalAngle) == 86 * (300 - verticalAngle)

RECURSIVE EveryStep(_, _, _)
\* The loop for (i = from; i < layerCount; i += step).
EveryStep(from, layerCount, step) ==
  IF from >= layerCount THEN <<>>
  ELSE <<from>> \o EveryStep(from + step, layerCount, step)

\* A step rounded up instead of down.
layerIndicesCeilStep(layerCount) ==
  IF layerCount <= 8 THEN EveryStep(0, layerCount, 1)
  ELSE EveryStep(0, layerCount, Max(1, (layerCount + 4) \div 5))

\* drawShadow, lines 311-325: the layers that cast a shadow.
layerIndices(layerCount) ==
  IF layerCount <= 8 THEN EveryStep(0, layerCount, 1)
  ELSE EveryStep(0, layerCount, Max(1, layerCount \div 5))

\* drawShadow, lines 328-366: the shadow sprite of layer i.
shadowSprite(st, i, rotation) ==
  LET length == baseShadowLength(st.height, st.sunVerticalAngle)
      shadowOffsetX == -Sin(st.sunHorizontalAngle) * length
      shadowOffsetY == -Cos(st.sunHorizontalAngle) * length
  IN  [layer |-> i,
       x |-> IF i > 0 THEN shadowOffsetX * i * 3 ELSE 0,
       y |-> IF i > 0 THEN shadowOffsetY * i * 3 ELSE 0,
       alpha |-> shadowAlpha(st.sunVerticalAngle),
       scale |-> globalScale,
       rotation |-> rotation]

\* stack.drawShadow(x, y, rotation)
drawShadow(st, x, y, rotation) ==
  IF ~st.shadowEnabled THEN st
  ELSE LET indices == layerIndices(st.layerSprites)
       IN  [st EXCEPT
              !.baseShadowLength = baseShadowLength(st.height, st.sunVerticalAngle),
              !.shadowContainer =
                 <<[x |-> x, y |-> y,
                    list |-> [k \in 1..Len(indices) |->
                                shadowSprite(st, indices[k], rotation)]]>>]

\* The stacks constructed, the sun angles configured and the draw calls made.
DefaultHeights == {16, 32}
SunDirections == {0, 90, 180, 270}
SunHeights == {0, 30, 45, 60, 90}
DrawPositions == {<<100, 50>>}
DrawRotations == {0, 90}

ConfigureSun(horizontalAngle, verticalAngle, shadowEnabled) ==
  /\ stack' = configureSun(stack, horizontalAngle, verticalAngle, shadowEnabled)
  /\ obs' = [obs EXCEPT !.call = "configureSun", !.args = <<>>]
  /\ UNCHANGED <<player, entity, camera, handler, game, shortest, sun>>

\* The sine and cosine of the sun's direction are exact on quarter turns only.
DrawShadow(x, y, rotation) ==
  /\ stack.sunHorizontalAngle % 90 = 0
  /\ stack' = drawShadow(stack, x, y, rotation)
  /\ obs' = [obs EXCEPT !.call = "drawShadow", !.args = <<>>]
  /\ UNCHANGED <<player, entity, camera, handler, game, shortest, sun>>

NextShadow ==
  \/ \E h \in SunDirections, v \in SunHeights, e \in BOOLEAN : ConfigureSun(h, v, e)
  \/ \E p \in DrawPositions, r \in DrawRotations : DrawShadow(p[1], p[2], r)

InitShadow ==
  /\ player = PlayerInit
  /\ entity = EntityInit
  /\ camera = [CameraInit EXCEPT !.width = 800, !.height = 600]
  /\ handler = HandlerInit
  /\ game = GameInit
  /\ shortest = AngleInit
  /\ sun = SunInit
  /\ stack \in {createDefaultLayers(n, h) : n \in 0..MaxLayers, h \in DefaultHeights}
  /\ obs = ObsInit

SpecShadow == InitShadow /\ [][NextShadow]_vars

(***************************************************************************)
(* Properties of PlayerController.update.                                  *)
(***************************************************************************)
\* The update moved the entity: update moves it only by teleportPolar.
Teleported == entity' # entity

\* C1: once staminaLocked is true, every update leaves boostActive false and
\* executes no teleport, and staminaLocked is cleared only by an update that
\* leaves stamina at maxStamina or more.
StaminaLockedUntilFull ==
  [][player.staminaLocked =>
       /\ ~player'.boostActive
       /\ ~Teleported
       /\ (~player'.staminaLocked => player'.stamina >= maxStamina)]_vars

\* C1 witness: the key is held with stamina left and no cooldown, and only the
\* lock keeps the boost off.
StaminaLockBlocksBoost ==
  /\ player.staminaLocked
  /\ obs.input.boostTeleport
  /\ obs.held >= 2
  /\ player.stamina > boostStaminaCost
  /\ player.boostCooldown = 0
  /\ ~player.boostActive

\* C2: an update without the key teleports exactly when the key was held for
\* 1..maxTeleportHold consecutive updates immediately before, stamina is not
\* locked and boostCooldown is zero; an update with the key never teleports;
\* a hold longer than maxTeleportHold never teleports; and only the first
\* update after a hold can teleport.
TeleportOnShortPress ==
  [][/\ Teleported <=> /\ ~obs'.input.boostTeleport
                       /\ obs.held >= 1
                       /\ obs.held <= maxTeleportHold
                       /\ ~player.staminaLocked
                       /\ player.boostCooldown = 0
     /\ obs.held > maxTeleportHold => ~Teleported
     /\ Teleported => obs.input.boostTeleport /\ obs'.held = 0]_vars

\* C2 witness: two short presses have teleported the entity forward twice.
TeleportedTwice ==
  /\ entity.y = -(2 * teleportDistance)
  /\ ~obs.input.boostTeleport
  /\ ~player.staminaLocked

\* C5: in every update, a side fires exactly when its button is held and the
\* side's last shot is at least fireRate updates back (or there was none): a
\* held button fires at once and then on every fireRate-th update, and two
\* shots of a side are never fewer than fireRate updates apart.
FireEveryFireRate ==
  [][/\ player'.firingLeft <=>
          (obs'.input.leftMouse /\ obs.gapLeft + 1 >= fireRate)
     /\ player'.firingRight <=>
          (obs'.input.rightMouse /\ obs.gapRight + 1 >= fireRate)
     /\ (player'.firingLeft \/ player'.firingRight) =>
          /\ Len(player'.cannonballs) > 0
          /\ player'.cannonballs[Len(player'.cannonballs)].active]_vars

\* C5 witness: the left button held through, the second left shot falls
\* fireRate updates after the first.
SecondShotAfterFireRate ==
  /\ player.firingLeft
  /\ ~player.firingRight
  /\ obs.input.leftMouse
  /\ Len(player.cannonballs) = 2
  /\ player.cannonballs[1].rotation = player.cannonballs[2].rotation
  /\ player.cannonballs[1].lifetime + fireRate = player.cannonballs[2].lifetime

\* C6: after update (which ends with updateCannonballs) every cannonball in
\* the controller's list is active.
OnlyActiveCannonballsKept ==
  \A i \in 1..Len(player.cannonballs) : player.cannonballs[i].active

\* C7: a turnLeft update moves tiltAmount toward -maxTilt and a turnRight
\* update moves it toward +maxTilt.
TiltNegativeForLeft ==
  [][/\ (obs'.input.turnLeft /\ ~obs'.input.turnRight) =>
          /\ player'.tiltAmount <= player.tiltAmount
          /\ player.tiltAmount > -maxTilt => player'.tiltAmount < player.tiltAmount
     /\ (obs'.input.turnRight /\ ~obs'.input.turnLeft) =>
          /\ player'.tiltAmount >= player.tiltAmount
          /\ player.tiltAmount < maxTilt => player'.tiltAmount > player.tiltAmount]_vars

(***************************************************************************)
(* Properties of the camera.                                               *)
(***************************************************************************)
\* C4: getCenterPosition is the entity's position.
CenterIsEntityPosition ==
  getCenterPosition(player, entity, camera) = [x |-> entity.x, y |-> entity.y]

\* How far the camera's rotation is from facing a target rotation tr.
AngularGap(rot, tr) ==
  Abs(getShortestAngleDifference(rot, JsRem(-tr, 360) * Unit))

\* C8: every follow stores its target; between a move and the next reset or
\* resetToDefaultPosition it leaves x, y and rotation as they are, and
\* otherwise it brings the camera nearer to the target position and rotation.
FollowHeldAfterMove ==
  [][obs'.call = "follow" =>
       LET tx == obs'.args[1]
           ty == obs'.args[2]
           tr == obs'.args[3]
       IN  /\ camera'.targetX = tx
           /\ camera'.targetY = ty
           /\ tr # <<>> => camera'.targetRotation = tr[1]
           /\ obs.moved =>
                /\ camera'.x = camera.x
                /\ camera'.y = camera.y
                /\ camera'.rotation = camera.rotation
           /\ ~obs.moved =>
                /\ tx # camera.x => Abs(tx - camera'.x) < Abs(tx - camera.x)
                /\ ty # camera.y => Abs(ty - camera'.y) < Abs(ty - camera.y)
                /\ (tr # <<>> /\ AngularGap(camera.rotation, tr[1]) > 0) =>
                     AngularGap(camera'.rotation, tr[1])
                       < AngularGap(camera.rotation, tr[1])]_vars

\* C8 witness: a follow after a move, with a target away from the camera.
FollowedWhileMoved ==
  /\ obs.call = "follow"
  /\ obs.moved
  /\ obs.args[3] # <<>>
  /\ camera.targetX # camera.x
  /\ camera.targetRotation # 0

\* World and screen points the transforms are tried on.
Points ==
  {<<0, 0>>, <<teleportDistance, 0>>, <<-(7 * Unit), 13 * Unit>>,
   <<Unit \div 2, -Unit>>}

\* The transforms are exact in the model when the rotation is a quarter turn.
QuarterTurn(c) == c.rotation % (90 * Unit) = 0

\* C9: screenToWorld undoes worldToScreen and worldToScreen undoes
\* screenToWorld, and the camera's own position maps to the screen centre.
TransformsAreInverse ==
  QuarterTurn(camera) =>
    /\ \A pt \in Points :
         LET s == worldToScreen(camera, pt[1], pt[2])
             w == screenToWorld(camera, pt[1], pt[2])
         IN  /\ screenToWorld(camera, s.x, s.y) = [x |-> pt[1], y |-> pt[2]]
             /\ worldToScreen(camera, w.x, w.y) = [x |-> pt[1], y |-> pt[2]]
    /\ worldToScreen(camera, camera.x, camera.y)
         = [x |-> (camera.width * Unit) \div 2, y |-> (camera.height * Unit) \div 2]

\* C9 witness: the camera is turned by a quarter and sits between whole units.
TurnedCameraOffGrid ==
  /\ camera.rotation = -(90 * Unit)
  /\ camera.x % Unit # 0
  /\ camera.y # 0

(***************************************************************************)
(* Properties of the angle difference and of the start screen.             *)
(***************************************************************************)
\* C10: the difference d returned for (current, target) lies in -180..180
\* degrees and current + d is congruent to target modulo 360 degrees.
ShortestDifferenceInRange ==
  shortest.applied =>
    /\ shortest.diff >= -(180 * Unit)
    /\ shortest.diff <= 180 * Unit
    /\ (shortest.current + shortest.diff - shortest.target) % (360 * Unit) = 0

\* C10 witness: a target more than half a turn below a positive current
\* angle, so that the remainder had to be raised by 360.
DifferenceWrappedUp ==
  /\ shortest.applied
  /\ JsRem(shortest.target - shortest.current, 360 * Unit) < -(180 * Unit)
  /\ shortest.current > 0
  /\ shortest.diff > 0

\* C3: on the welcome screen, a Game.update that comes after a keydown or
\* pointerdown event starts the game.
AnyKeyStartsGame ==
  [][(obs'.call = "Game.update" /\ obs.pressed /\ ~game.gameStarted)
       => game'.gameStarted]_vars

(***************************************************************************)
(* Properties of the Sun and of the shadow of a SpriteStack.               *)
(***************************************************************************)
\* C11: the sun's horizontal angle, and the value adjustHorizontalAngle
\* returned, is a compass direction: at least 0 and below 360 degrees.
HorizontalAngleIsCompassDirection ==
  /\ sun.horizontalAngle >= 0
  /\ sun.horizontalAngle < 360
  /\ obs.call = "adjustHorizontalAngle" =>
       (sun.returned[1] >= 0 /\ sun.returned[1] < 360)

\* A drawShadow call has just drawn the shadow with the sun angles in place.
ShadowDrawn ==
  /\ obs.call = "drawShadow"
  /\ stack.shadowEnabled
  /\ stack.shadowContainer # <<>>

\* C12: the shadow length drawn is height * (1 - v/90) * 2.5 for the sun's
\* vertical angle v in 0..90: zero with the sun overhead, largest with the sun
\* at the horizon, never longer for a sun one degree higher; and the shadow
\* sprite of the bottom layer has offset (0, 0).
ShadowLengthFallsWithSun ==
  /\ (ShadowDrawn /\ stack.sunVerticalAngle \in 0..90) =>
       /\ 2 * 90 * stack.baseShadowLength =
            5 * stack.height * (90 - stack.sunVerticalAngle) * LengthUnit
       /\ stack.sunVerticalAngle = 90 => stack.baseShadowLength = 0
       /\ stack.baseShadowLength <= baseShadowLength(stack.height, 0)
       /\ \A k \in 1..Len(stack.shadowContainer[1].list) :
            LET sprite == stack.shadowContainer[1].list[k]
            IN  sprite.layer = 0 => (sprite.x = 0 /\ sprite.y = 0)
  /\ \A v \in 0..89 :
       baseShadowLength(stack.height, v + 1) <= baseShadowLength(stack.height, v)

\* C12 witness: a shadow drawn with the sun at the horizon in the east: it
\* has a length, the bottom layer's sprite sits at (0, 0) and the next one
\* is shifted.
ShadowAtHorizon ==
  /\ ShadowDrawn
  /\ stack.sunVerticalAngle = 0
  /\ stack.sunHorizontalAngle = 90
  /\ stack.baseShadowLength > 0
  /\ Len(stack.shadowContainer[1].list) >= 2
  /\ stack.shadowContainer[1].list[1].x = 0
  /\ stack.shadowContainer[1].list[2].x # 0

\* C13: a stack of at most 8 layers casts the shadow of every layer; a
\* larger one that of at least 5 evenly spaced layers, the bottom layer
\* (index 0) among them, all of them layers of the stack.
ShadowLayersEvenlySpaced ==
  ShadowDrawn =>
    LET list == stack.shadowContainer[1].list
        n == stack.layerSprites
        used == {list[k].layer : k \in 1..Len(list)}
    IN  /\ Cardinality(used) = Len(list)
        /\ n <= 8 => used = 0..(n - 1)
        /\ n > 8 =>
             /\ Cardinality(used) >= 5
             /\ 0 \in used
             /\ used \subseteq 0..(n - 1)
             /\ \E step \in 1..n :
                  \A k \in 1..(Len(list) - 1) :
                    list[k + 1].layer - list[k].layer = step

\* C13 witness: the shadow of a stack of more than 8 layers that leaves some
\* layers out.
ShadowOfSampledLayers ==
  /\ ShadowDrawn
  /\ stack.layerSprites > 8
  /\ Len(stack.shadowContainer[1].list) < stack.layerSprites

====
